---- MODULE Spec2Model ----
(***************************************************************************)
(* DeepQAgent.train of l2rpn_baselines/utils/DeepQAgent.py as a state      *)
(* machine: one action per statement group of the training loop, the       *)
(* helpers of the class as operators.  The environment (grid2op), the      *)
(* Q-network and the replay buffer are collaborators; what they return is  *)
(* drawn from small sets.                                                  *)
(*                                                                         *)
(* train is followed through one call; my_act and load are the public   *)
(* calls made on the agent before it.                                      *)
(*                                                                         *)
(* Epsilon is a Python float, an IEEE binary64.  A float x is held as the  *)
(* integer x * 2^54, written in two limbs <<hi, lo>> for hi * 2^27 + lo    *)
(* with 0 <= lo < 2^27, and every operation rounds its exact result to 53  *)
(* significant bits, ties to even, as the hardware does.  An               *)
(* EPSILON_DECAY d is held as the integer d * DecayUnit.  The schedules    *)
(* below have bounds that are binary fractions and quotients that are at   *)
(* least 1/4 or exact, so that every float the code computes is a float of *)
(* the model, bit for bit.                                                 *)
(***************************************************************************)
EXTENDS Integers, Sequences, FiniteSets, TLC

VARIABLES
    pc,              \* position of train(): idle, loop, ..., returned, raised
    error,           \* the exception the last public call raised, or "None"
    result,          \* what the last public call returned, or "None"
    iterations,      \* argument of train
    save_path,       \* argument of train, "None" or a directory
    training_param,  \* self.training_param
    replay_buffer,   \* self.replay_buffer
    process_buffer,  \* self.process_buffer: converted observations
    deep_q,          \* self.deep_q: the Q-network and its target network
    tf_writer,       \* self.tf_writer
    losses,          \* self.losses
    observation_num, \* locals of train ...
    epsilon,         \* a float in two limbs
    predict_epsilon, \* history: the epsilon of the last predict_movement
    alive_frame,
    total_reward,
    reward,
    done,
    epoch_num,
    alive_frames,
    total_rewards,
    initial_state,
    pm_i,
    act,
    frame,           \* the i of "for i in range(NUM_FRAMES)"
    batch,           \* the minibatch last drawn
    loss,            \* the loss last returned by deep_q.train
    env,             \* the environment given to train
    disk,            \* directories made, checkpoints and summaries written
    calls,           \* history: collaborator calls of the current iteration
                     \* of train, or of the last call of my_act or load
    after_nan,       \* history: collaborator calls since a non-finite loss
    ncalls,          \* history: collaborator calls of the public call, counted
    iter_reward      \* history: sum of the rewards env.step returned this iteration

vars == <<pc, error, result, predict_epsilon, iterations, save_path, training_param, replay_buffer,
          process_buffer, deep_q, tf_writer, losses, observation_num, epsilon,
          alive_frame, total_reward, reward, done, epoch_num, alive_frames,
          total_rewards, initial_state, pm_i, act, frame, batch, loss, env,
          disk, calls, after_nan, ncalls, iter_reward>>

----------------------------------------------------------------------------
(* Bounds of the model. *)

MaxIterations == 3       \* train is called with iterations in -1..MaxIterations
MaxBufferSize == 2       \* BUFFER_SIZE in 1..MaxBufferSize
MaxMinObservation == 1   \* MIN_OBSERVATION in 0..MaxMinObservation
MaxMinibatch == 2        \* MINIBATCH_SIZE in 0..MaxMinibatch
MaxChronics == 2         \* the environment has 1..MaxChronics chronics
MaxFrames == 2           \* NUM_FRAMES in 0..MaxFrames

(* Program constants. *)

UPDATE_FREQ == 100
SAVING_NUM == 1000
DecayUnit == 2
Limb == 134217728        \* 2^27

None == "None"
Rewards == {1, 2}                     \* temp_reward returned by env.step
ActionIds == {0, 1}                   \* indices predict_movement may return
Finite == "finite"
Losses == {Finite, "nan"}             \* what deep_q.train may return
CallNames == {"env.reset", "shuffle", "predict_movement", "env.step",
              "replay_buffer.add", "replay_buffer.sample", "deep_q.train",
              "deep_q.target_train", "save", "deep_q.save_network",
              "deep_q.load_network"}

----------------------------------------------------------------------------
(* Pure helpers. *)

Min(a, b) == IF a < b THEN a ELSE b
Max(a, b) == IF a > b THEN a ELSE b

RECURSIVE concatenate(_)
concatenate(arrays) ==
    IF arrays = <<>> THEN <<>> ELSE Head(arrays) \o concatenate(Tail(arrays))

RECURSIVE SumSeq(_)
SumSeq(s) == IF s = <<>> THEN 0 ELSE Head(s) + SumSeq(Tail(s))

zeros(n) == [k \in 1..n |-> 0]

\* a[lo:hi] of a numpy array, 0-based, clipped to the array
Slice(a, lo, hi) == SubSeq(a, Max(lo, 0) + 1, Min(hi, Len(a)))

isfinite(l) == l = Finite

----------------------------------------------------------------------------
(* Python floats.  <<hi, lo>> is the integer hi * Limb + lo, the float     *)
(* times 2^54; lo is in 0..Limb-1 and hi carries the sign.                 *)

float_zero == <<0, 0>>
float_one == <<Limb, 0>>
float_half == <<Limb \div 2, 0>>
float_quarter == <<Limb \div 4, 0>>

limbs(hi, lo) == <<hi + (lo \div Limb), lo % Limb>>

float_neg(x) == limbs(-x[1], -x[2])

float_gt(x, y) == x[1] > y[1] \/ (x[1] = y[1] /\ x[2] > y[2])

\* the spacing of the floats around a magnitude of hi * Limb: 53
\* significant bits are units below 2^53, pairs below 2^54, ...
ulp(hi) ==
    IF hi < Limb \div 2 THEN 1
    ELSE IF hi < Limb THEN 2
    ELSE IF hi < 2 * Limb THEN 4
    ELSE 8

\* the float nearest to (hi * Limb + lo) + num / den for a magnitude, where
\* 0 <= num < den: round to nearest, ties to even
round_nearest_even(hi, lo, num, den) ==
    LET q == ulp(hi)
        r == lo % q
        below == lo - r
        twice == 2 * (r * den + num)
        up == \/ twice > q * den
              \/ twice = q * den /\ (below \div q) % 2 = 1
    IN  limbs(hi, IF up THEN below + q ELSE below)

\* x - y of two floats
float_sub(x, y) ==
    LET d == limbs(x[1] - y[1], x[2] - y[2])
    IN  IF d[1] < 0
        THEN LET m == float_neg(d)
             IN  float_neg(round_nearest_even(m[1], m[2], 0, 1))
        ELSE round_nearest_even(d[1], d[2], 0, 1)

\* x / (d / DecayUnit) of a float x >= 0 and a decay d > 0: long division
\* of x * DecayUnit by d, limb by limb, then rounded
float_div(x, d) ==
    LET n == limbs(x[1] * DecayUnit, x[2] * DecayUnit)
        qh == n[1] \div d
        t == (n[1] % d) * Limb + n[2]
    IN  round_nearest_even(qh, t \div d, t % d, d)

\* DeepQAgent.convert_obs
convert_obs(observation) ==
    observation.rho \o observation.line_status \o observation.topo_vect

\* a process buffer that is never emptied
reset_process_buffer_kept == process_buffer

\* DeepQAgent._reset_process_buffer
reset_process_buffer == <<>>

\* a _convert_process_buffer that accepts every NUM_FRAMES
frames_supported_any(tp) == TRUE

\* the check of DeepQAgent._convert_process_buffer
frames_supported(tp) == tp.NUM_FRAMES = 1

\* np.concatenate(self.process_buffer).reshape(1, -1): a matrix of one row
convert_process_buffer(pb) == <<concatenate(pb)>>

\* x.reshape(-1)
reshape_flat(x) == concatenate(x)

\* AgentWithConverter.convert_act through IdToAct: the action of an index
convert_act(act_id) == [act_id |-> act_id]

\* DeepQAgent._convert_all_act
convert_all_act(act_as_integer) ==
    [k \in 1..Len(act_as_integer) |-> convert_act(act_as_integer[k])]

\* DeepQAgent._init_global_train_loop
init_global_train_loop == [alive_frame |-> 0, total_reward |-> 0]

\* DeepQAgent._init_local_train_loop
init_local_train_loop == [reward |-> 0, done |-> FALSE]

\* an alive_frame that is not put back to zero when the episode ends
update_loop_keep_alive(d, temp_reward, temp_done, af, tr, r) ==
    [done |-> temp_done,
     reward |-> r,
     total_reward |-> tr + temp_reward,
     alive_frame |-> af + 1]

\* DeepQAgent._update_loop
update_loop(d, temp_reward, temp_done, af, tr, r) ==
    [done |-> temp_done,
     reward |-> r,
     total_reward |-> tr + temp_reward,
     alive_frame |-> IF temp_done THEN 0 ELSE af + 1]

\* a reset at the first iteration only
reset_needed_first_only(d, n) == n = 0

\* the condition of DeepQAgent._need_reset
reset_needed(d, n) == d \/ n = 0

\* a re-shuffle at every reset
shuffle_always(e, nb_chronics) == TRUE

\* the re-shuffle condition of DeepQAgent._need_reset
shuffle_due(e, nb_chronics) == e % nb_chronics = 0

\* x / d of Python raises ZeroDivisionError for d == 0
division_defined(d) == d # 0

\* the epsilon decay of train
epsilon_step(tp) ==
    float_div(float_sub(tp.INITIAL_EPSILON, tp.FINAL_EPSILON), tp.EPSILON_DECAY)

next_epsilon(eps, tp) ==
    IF float_gt(eps, tp.FINAL_EPSILON) THEN float_sub(eps, epsilon_step(tp))
                                       ELSE eps

\* training as soon as MIN_OBSERVATION transitions are stored
training_due_at_least(size, tp) == size >= tp.MIN_OBSERVATION

\* the training condition of train
training_due(size, tp) == size > tp.MIN_OBSERVATION

\* a checkpoint every SAVING_NUM iterations only
saving_due_periodic_only(n, iters) == n % SAVING_NUM = 0

\* the checkpoint condition of train
saving_due(n, iters) == n % SAVING_NUM = 0 \/ n = iters - 1

\* a loop that goes on after a non-finite loss
after_loss_no_break(l) == "save"

\* where train goes once the loss is recorded: break on a non-finite loss
after_loss(l) == IF ~isfinite(l) THEN "returned" ELSE "save"

\* a[idx] of a numpy array of length n is an IndexError outside -n..n-1
index_ok(idx, n) == -n <= idx /\ idx < n

\* the chunk size train asks for at iteration n (n % 1000 == 999)
chunk_size(iters, n) == Max(10, Min(10000 * (iters \div n), 10000))

----------------------------------------------------------------------------
(* The replay buffer (l2rpn_baselines/utils/ReplayBuffer.py): a buffer of  *)
(* fixed capacity that evicts the oldest transition on overflow and is     *)
(* sampled uniformly at random.                                            *)

ReplayBuffer(buffer_size) == [buffer_size |-> buffer_size, buffer |-> <<>>]

rb_size(rb) == Len(rb.buffer)

rb_add(rb, s, a, r, d, s2) ==
    LET t == [s |-> s, a |-> a, r |-> r, d |-> d, s2 |-> s2]
    IN  IF Len(rb.buffer) < rb.buffer_size
        THEN [rb EXCEPT !.buffer = Append(@, t)]
        ELSE [rb EXCEPT !.buffer = Append(Tail(@), t)]

\* the minibatches sample(batch_size) may return: sets of buffer positions
rb_sample(rb, batch_size) ==
    {b \in SUBSET (1..Len(rb.buffer)) :
        Cardinality(b) = Min(batch_size, Len(rb.buffer))}

\* a buffer built one transition too large
init_replay_buffer_larger(tp) == ReplayBuffer(tp.BUFFER_SIZE + 1)

\* DeepQAgent._init_replay_buffer
init_replay_buffer(tp) == ReplayBuffer(tp.BUFFER_SIZE)

----------------------------------------------------------------------------
(* The environment.  Every observation it hands out is tagged with its     *)
(* serial number, the episode it belongs to and its time step; t and       *)
(* ep_reward are the steps and the rewards of the current episode.         *)

make_env(nb_chronics) ==
    [nb_chronics |-> nb_chronics, episode |-> 0, t |-> 0, serial |-> 0,
     over |-> FALSE, last_done |-> FALSE, step_on_over |-> FALSE,
     ep_reward |-> 0, chunk_size |-> 0, nb_shuffle |-> 0]

observation_of(e) ==
    [rho |-> <<e.serial>>, line_status |-> <<e.episode>>, topo_vect |-> <<e.t>>]

env_reset(e) ==
    [e EXCEPT !.episode = @ + 1, !.t = 0, !.serial = @ + 1, !.over = FALSE,
              !.ep_reward = 0]

env_step(e, temp_reward, temp_done) ==
    [e EXCEPT !.t = @ + 1, !.serial = @ + 1, !.over = temp_done,
              !.ep_reward = @ + temp_reward,
              !.last_done = temp_done,
              !.step_on_over = @ \/ e.over]

env_shuffle(e) == [e EXCEPT !.nb_shuffle = @ + 1]

\* DeepQAgent.set_chunk
set_chunk(e, nb) == [e EXCEPT !.chunk_size = Max(100, nb)]

----------------------------------------------------------------------------
(* The Q-network: weights counts the training steps applied to the main    *)
(* network, target the weights the target network was last synchronised    *)
(* with; diverged tells that a training step returned a non-finite loss,   *)
(* loaded the file the weights were last read from.                        *)

no_deep_q ==
    [built |-> FALSE, weights |-> 0, diverged |-> FALSE,
     target |-> 0, target_diverged |-> FALSE, loaded |-> None]

\* init_deep_q of the subclasses: builds the network
init_deep_q(q) == [q EXCEPT !.built = TRUE]

\* load_network: the weights are those of the file, no training step yet
deep_q_load_network(q, path) ==
    [q EXCEPT !.weights = 0, !.diverged = FALSE, !.loaded = path]

deep_q_train(q, l) ==
    [q EXCEPT !.weights = @ + 1, !.diverged = @ \/ ~isfinite(l)]

deep_q_target_train(q) ==
    [q EXCEPT !.target = q.weights, !.target_diverged = q.diverged]

\* DeepQAgent.save: os.path.join(path, self.name) is <<path, name>>
agent_name == "DeepQAgent"

save(d, path, q, n) ==
    IF path # None
    THEN [d EXCEPT !.checkpoints =
              Append(@, [path |-> <<path, agent_name>>, weights |-> q.weights,
                         diverged |-> q.diverged, step |-> n])]
    ELSE d

\* DeepQAgent._save_tensorboard: a mean is written as <<sum, count>>
mean(a) == <<SumSeq(a), Len(a)>>

save_tensorboard(d, writer, step, e, epoch_rewards, epoch_alive) ==
    IF writer = None \/ step % UPDATE_FREQ # 0
    THEN d
    ELSE LET lo100 == IF e >= 100 THEN e - 100 ELSE 0
             lo30 == IF e >= 30 THEN e - 30 ELSE 0
         IN  [d EXCEPT !.summaries = Append(@,
                 [step |-> step,
                  mean_reward |-> mean(Slice(epoch_rewards, 0, e)),
                  mean_alive |-> mean(Slice(epoch_alive, 0, e)),
                  mean_reward_100 |-> mean(Slice(epoch_rewards, lo100, e)),
                  mean_alive_100 |-> mean(Slice(epoch_alive, lo100, e)),
                  mean_reward_30 |-> mean(Slice(epoch_rewards, lo30, e)),
                  mean_alive_30 |-> mean(Slice(epoch_alive, lo30, e))])]

----------------------------------------------------------------------------
(* The arguments train is called with. *)

Iterations == -1..MaxIterations
SavePaths == {None, "ckpt"}
LogDirs == {None, "logs"}

\* 1.0 to 0.0 over 2 steps, training from the first transition on
BaseParam ==
    [INITIAL_EPSILON |-> float_one, FINAL_EPSILON |-> float_zero,
     EPSILON_DECAY |-> 2 * DecayUnit,
     NUM_FRAMES |-> 1, MIN_OBSERVATION |-> 0, MINIBATCH_SIZE |-> 1,
     BUFFER_SIZE |-> 1]

\* <<INITIAL_EPSILON, FINAL_EPSILON, EPSILON_DECAY>>: (1.0, 0.0), (1.0, 0.5)
\* and (0.5, 0.5) over 0.5, 1, 2 and 4 steps, (1.0, 0.25) over 1.5 steps,
\* (1.0, 0.0) over 3 steps
EpsilonSchedules ==
    LET steps == {DecayUnit \div 2, DecayUnit, 2 * DecayUnit, 4 * DecayUnit}
    IN  ({float_one} \X {float_zero, float_half} \X steps)
            \cup ({float_half} \X {float_half} \X steps)
            \cup {<<float_one, float_quarter, (3 * DecayUnit) \div 2>>}
            \cup {<<float_one, float_zero, 3 * DecayUnit>>}

EpsilonParams ==
    {[BaseParam EXCEPT !.INITIAL_EPSILON = e[1], !.FINAL_EPSILON = e[2],
                          !.EPSILON_DECAY = e[3]] : e \in EpsilonSchedules}

\* an EPSILON_DECAY of 0, with epsilon starting above FINAL_EPSILON or on
\* it, for every NUM_FRAMES
ZeroDecayParams ==
    {[BaseParam EXCEPT !.INITIAL_EPSILON = e, !.FINAL_EPSILON = float_half,
                          !.EPSILON_DECAY = 0, !.NUM_FRAMES = f] :
        e \in {float_one, float_half}, f \in 0..MaxFrames}

BufferParams ==
    {[BaseParam EXCEPT !.NUM_FRAMES = f, !.MIN_OBSERVATION = m,
                          !.MINIBATCH_SIZE = b, !.BUFFER_SIZE = c] :
        f \in 0..MaxFrames, m \in 0..MaxMinObservation,
        b \in 0..MaxMinibatch, c \in 1..MaxBufferSize}

(* What train reads of save_path, of logdir, of the number of chronics and *)
(* of the epsilon schedule does not depend on the replay buffer: the       *)
(* arguments vary the buffer parameters, the files and chronics, and the   *)
(* epsilon schedule in three families, each with every number of           *)
(* iterations; an EPSILON_DECAY of 0 comes with every NUM_FRAMES.          *)
TrainArgs ==
    [iterations : Iterations, save_path : {"ckpt"}, logdir : {None},
     nb_chronics : {1}, training_param : BufferParams]
    \cup
    [iterations : Iterations, save_path : SavePaths, logdir : LogDirs,
     nb_chronics : 1..MaxChronics, training_param : {BaseParam}]
    \cup
    [iterations : Iterations, save_path : {None}, logdir : {None},
     nb_chronics : {1}, training_param : EpsilonParams \cup ZeroDecayParams]

----------------------------------------------------------------------------
(* History of the collaborator calls. *)

Count(cs, c) == Cardinality({k \in DOMAIN cs : cs[k] = c})

Log(cs) ==
    /\ calls' = calls \o cs
    /\ after_nan' = IF loss = "nan" THEN after_nan \o cs ELSE after_nan
    /\ ncalls' = [c \in CallNames |-> ncalls[c] + Count(cs, c)]

NoLog == UNCHANGED <<calls, after_nan, ncalls>>

\* a public call begins: the history is that of its own calls
StartLog(cs) ==
    /\ calls' = cs
    /\ after_nan' = <<>>
    /\ ncalls' = [c \in CallNames |-> Count(cs, c)]

----------------------------------------------------------------------------
(* The state after DeepQAgent.__init__, before any call. *)

Init ==
    /\ pc = "idle"
    /\ error = None
    /\ iterations = 0
    /\ save_path = None
    /\ training_param = None
    /\ replay_buffer = ReplayBuffer(0)
    /\ process_buffer = <<>>
    /\ deep_q = no_deep_q
    /\ tf_writer = None
    /\ losses = <<>>
    /\ observation_num = 0
    /\ epsilon = float_zero
    /\ predict_epsilon = None
    /\ result = None
    /\ alive_frame = 0
    /\ total_reward = 0
    /\ reward = 0
    /\ done = FALSE
    /\ epoch_num = 0
    /\ alive_frames = <<>>
    /\ total_rewards = <<>>
    /\ initial_state = <<>>
    /\ pm_i = <<>>
    /\ act = None
    /\ frame = 0
    /\ batch = {}
    /\ loss = None
    /\ env = make_env(1)
    /\ disk = [dirs |-> {}, checkpoints |-> <<>>, summaries |-> <<>>]
    /\ calls = <<>>
    /\ after_nan = <<>>
    /\ ncalls = [c \in CallNames |-> 0]
    /\ iter_reward = 0

----------------------------------------------------------------------------
(* my_act, lines 49-53: builds the network if there is none and asks it    *)
(* for the action of the observation with epsilon = 0.0                    *)
my_act ==
    /\ pc = "idle"
    /\ deep_q' = IF deep_q.built THEN deep_q ELSE init_deep_q(deep_q)
    /\ predict_epsilon' = float_zero
    /\ \E a \in ActionIds : result' = a
    /\ error' = None
    /\ StartLog(<<"predict_movement">>)
    /\ UNCHANGED <<pc, iterations, save_path, training_param, replay_buffer,
                   process_buffer, tf_writer, losses, observation_num, epsilon,
                   alive_frame, total_reward, reward, done, epoch_num,
                   alive_frames, total_rewards, initial_state, pm_i, act, frame,
                   batch, loss, env, disk, iter_reward>>

(* load, lines 56-58: deep_q.load_network(path); without a network,       *)
(* self.deep_q is None and the attribute access raises AttributeError      *)
load ==
    /\ pc = "idle"
    /\ \E path \in SavePaths \ {None} :
        IF deep_q.built
        THEN /\ deep_q' = deep_q_load_network(deep_q, path)
             /\ error' = None
             /\ StartLog(<<"deep_q.load_network">>)
        ELSE /\ error' = "AttributeError"
             /\ UNCHANGED deep_q
             /\ StartLog(<<>>)
    /\ result' = None
    /\ UNCHANGED <<pc, iterations, save_path, training_param, replay_buffer,
                   process_buffer, tf_writer, losses, observation_num, epsilon,
                   predict_epsilon, alive_frame, total_reward, reward, done,
                   epoch_num, alive_frames, total_rewards, initial_state, pm_i,
                   act, frame, batch, loss, env, disk, iter_reward>>

----------------------------------------------------------------------------
(* train, lines 73-103: the set-up before the loop.  np.zeros(iterations)  *)
(* raises ValueError for a negative length.                                *)

train_begin ==
    /\ pc = "idle"
    /\ \E a \in TrainArgs :
        /\ iterations' = a.iterations
        /\ save_path' = a.save_path
        /\ training_param' = a.training_param
        /\ env' = make_env(a.nb_chronics)
        /\ replay_buffer' = init_replay_buffer(a.training_param)
        /\ disk' = [disk EXCEPT !.dirs =
                        IF a.save_path # None THEN @ \cup {a.save_path} ELSE @]
        /\ tf_writer' = IF a.logdir # None THEN <<a.logdir, agent_name>> ELSE None
        /\ epsilon' = a.training_param.INITIAL_EPSILON
        /\ IF a.iterations < 0
           THEN /\ pc' = "raised"
                /\ error' = "ValueError"
                /\ UNCHANGED <<losses, alive_frames, total_rewards>>
           ELSE /\ pc' = "loop"
                /\ losses' = zeros(a.iterations)
                /\ alive_frames' = zeros(a.iterations)
                /\ total_rewards' = zeros(a.iterations)
                /\ error' = None
    /\ result' = None
    /\ predict_epsilon' = None
    /\ StartLog(<<>>)
    /\ observation_num' = 0
    /\ alive_frame' = init_global_train_loop.alive_frame
    /\ total_reward' = init_global_train_loop.total_reward
    /\ reward' = init_local_train_loop.reward
    /\ done' = init_local_train_loop.done
    /\ epoch_num' = 0
    /\ UNCHANGED <<process_buffer, deep_q, initial_state, pm_i, act, frame,
                   batch, loss, iter_reward>>

(* lines 105-110: the loop test and the chunk size of the data loading *)
loop_head ==
    /\ pc = "loop"
    /\ IF observation_num < iterations
       THEN /\ pc' = "need_reset"
            /\ env' = IF observation_num % 1000 = 999
                      THEN set_chunk(env, chunk_size(iterations, observation_num))
                      ELSE env
            /\ calls' = <<>>
       ELSE /\ pc' = "returned"
            /\ UNCHANGED <<env, calls>>
    /\ UNCHANGED <<error, result, iterations, save_path, training_param,
                   replay_buffer, process_buffer, deep_q, tf_writer, losses,
                   observation_num, epsilon, predict_epsilon, alive_frame,
                   total_reward, reward, done, epoch_num, alive_frames,
                   total_rewards, initial_state, pm_i, act, frame, batch, loss,
                   disk, after_nan, ncalls, iter_reward>>

(* line 113 and _need_reset, lines 171-181 *)
need_reset ==
    /\ pc = "need_reset"
    /\ IF reset_needed(done, observation_num)
       THEN LET e1 == env_reset(env)
                shuffled == shuffle_due(epoch_num + 1, env.nb_chronics)
            IN  /\ process_buffer' =
                       Append(reset_process_buffer, convert_obs(observation_of(e1)))
                /\ epoch_num' = epoch_num + 1
                /\ env' = IF shuffled THEN env_shuffle(e1) ELSE e1
                /\ Log(IF shuffled THEN <<"env.reset", "shuffle">>
                                   ELSE <<"env.reset">>)
       ELSE /\ UNCHANGED <<process_buffer, epoch_num, env>>
            /\ NoLog
    /\ pc' = "decay"
    /\ UNCHANGED <<error, result, iterations, save_path, training_param,
                   replay_buffer, deep_q, tf_writer, losses, observation_num,
                   epsilon, predict_epsilon, alive_frame, total_reward, reward,
                   done, alive_frames, total_rewards, initial_state, pm_i, act,
                   frame, batch, loss, disk, iter_reward>>

(* lines 116-117; the division is made only when epsilon is above          *)
(* FINAL_EPSILON and raises ZeroDivisionError for an EPSILON_DECAY of 0    *)
decay_epsilon ==
    /\ pc = "decay"
    /\ IF /\ float_gt(epsilon, training_param.FINAL_EPSILON)
          /\ ~division_defined(training_param.EPSILON_DECAY)
       THEN /\ pc' = "raised"
            /\ error' = "ZeroDivisionError"
            /\ UNCHANGED epsilon
       ELSE /\ epsilon' = next_epsilon(epsilon, training_param)
            /\ pc' = "convert"
            /\ UNCHANGED error
    /\ UNCHANGED <<result, iterations, save_path, training_param, replay_buffer,
                   process_buffer, deep_q, tf_writer, losses, observation_num,
                   predict_epsilon, alive_frame, total_reward, reward, done,
                   epoch_num, alive_frames, total_rewards, initial_state, pm_i,
                   act, frame, batch, loss, env, disk, calls, after_nan, ncalls,
                   iter_reward>>

(* lines 119-123; _convert_process_buffer raises RuntimeError unless       *)
(* NUM_FRAMES is 1                                                         *)
convert_initial ==
    /\ pc = "convert"
    /\ IF ~frames_supported(training_param)
       THEN /\ pc' = "raised"
            /\ error' = "RuntimeError"
            /\ UNCHANGED <<initial_state, deep_q, process_buffer>>
       ELSE /\ initial_state' = convert_process_buffer(process_buffer)
            /\ deep_q' = IF observation_num = 0 THEN init_deep_q(deep_q)
                                                ELSE deep_q
            /\ process_buffer' = reset_process_buffer
            /\ pc' = "next_move"
            /\ UNCHANGED error
    /\ UNCHANGED <<result, iterations, save_path, training_param, replay_buffer,
                   tf_writer, losses, observation_num, epsilon, predict_epsilon,
                   alive_frame, total_reward, reward, done, epoch_num,
                   alive_frames, total_rewards, pm_i, act, frame, batch, loss,
                   env, disk, calls, after_nan, ncalls, iter_reward>>

(* lines 126-128 and _next_move: the network picks the action *)
next_move ==
    /\ pc = "next_move"
    /\ \E a \in ActionIds :
        /\ pm_i' = <<a>>
        /\ act' = LET all == convert_all_act(<<a>>)
                  IN  IF Len(all) = 1 THEN all[1] ELSE all
    /\ reward' = init_local_train_loop.reward
    /\ done' = init_local_train_loop.done
    /\ frame' = 0
    /\ iter_reward' = 0
    /\ predict_epsilon' = epsilon
    /\ Log(<<"predict_movement">>)
    /\ pc' = "frames"
    /\ UNCHANGED <<error, result, iterations, save_path, training_param,
                   replay_buffer, process_buffer, deep_q, tf_writer, losses,
                   observation_num, epsilon, alive_frame, total_reward,
                   epoch_num, alive_frames, total_rewards, initial_state, batch,
                   loss, env, disk>>

(* lines 129-136: one pass of the frame loop *)
step_frame ==
    /\ pc = "frames"
    /\ frame < training_param.NUM_FRAMES
    /\ \E temp_reward \in Rewards, temp_done \in BOOLEAN :
        LET e1 == env_step(env, temp_reward, temp_done)
            u == update_loop(done, temp_reward, temp_done, alive_frame,
                             total_reward, reward)
        IN  /\ env' = e1
            /\ process_buffer' =
                   Append(process_buffer, convert_obs(observation_of(e1)))
            /\ done' = u.done
            /\ reward' = u.reward
            /\ total_reward' = u.total_reward
            /\ alive_frame' = u.alive_frame
            /\ iter_reward' = iter_reward + temp_reward
    /\ frame' = frame + 1
    /\ Log(<<"env.step">>)
    /\ UNCHANGED <<pc, error, result, iterations, save_path, training_param,
                   replay_buffer, deep_q, tf_writer, losses, observation_num,
                   epsilon, predict_epsilon, epoch_num, alive_frames,
                   total_rewards, initial_state, pm_i, act, batch, loss, disk>>

(* line 138 and _store_new_state, lines 203-210: after the frame loop *)
store_new_state ==
    /\ pc = "frames"
    /\ frame >= training_param.NUM_FRAMES
    /\ IF ~frames_supported(training_param)
       THEN /\ pc' = "raised"
            /\ error' = "RuntimeError"
            /\ UNCHANGED replay_buffer
            /\ NoLog
       ELSE LET new_state == convert_process_buffer(process_buffer)
            IN  /\ replay_buffer' =
                       rb_add(replay_buffer, reshape_flat(initial_state),
                              pm_i, reward, done, reshape_flat(new_state))
                /\ Log(<<"replay_buffer.add">>)
                /\ pc' = "train_check"
                /\ UNCHANGED error
    /\ UNCHANGED <<result, iterations, save_path, training_param, process_buffer,
                   deep_q, tf_writer, losses, observation_num, epsilon,
                   predict_epsilon, alive_frame, total_reward, reward, done,
                   epoch_num, alive_frames, total_rewards, initial_state, pm_i,
                   act, frame, batch, loss, env, disk, iter_reward>>

(* lines 140-142: enough transitions are stored, a minibatch is drawn *)
sample_batch ==
    /\ pc = "train_check"
    /\ training_due(rb_size(replay_buffer), training_param)
    /\ \E b \in rb_sample(replay_buffer, training_param.MINIBATCH_SIZE) :
        batch' = b
    /\ Log(<<"replay_buffer.sample">>)
    /\ pc' = "deep_q_train"
    /\ UNCHANGED <<error, result, iterations, save_path, training_param,
                   replay_buffer, process_buffer, deep_q, tf_writer, losses,
                   observation_num, epsilon, predict_epsilon, alive_frame,
                   total_reward, reward, done, epoch_num, alive_frames,
                   total_rewards, initial_state, pm_i, act, frame, loss, env,
                   disk, iter_reward>>

(* line 140, the condition is false: no training in this iteration *)
skip_training ==
    /\ pc = "train_check"
    /\ ~training_due(rb_size(replay_buffer), training_param)
    /\ pc' = "save"
    /\ UNCHANGED <<error, result, iterations, save_path, training_param,
                   replay_buffer, process_buffer, deep_q, tf_writer, losses,
                   observation_num, epsilon, predict_epsilon, alive_frame,
                   total_reward, reward, done, epoch_num, alive_frames,
                   total_rewards, initial_state, pm_i, act, frame, batch, loss,
                   env, disk, calls, after_nan, ncalls, iter_reward>>

(* line 143: one training step of the network, which returns the loss *)
network_train ==
    /\ pc = "deep_q_train"
    /\ \E l \in Losses :
        /\ loss' = l
        /\ deep_q' = deep_q_train(deep_q, l)
    /\ Log(<<"deep_q.train">>)
    /\ pc' = "target_train"
    /\ UNCHANGED <<error, result, iterations, save_path, training_param,
                   replay_buffer, process_buffer, tf_writer, losses,
                   observation_num, epsilon, predict_epsilon, alive_frame,
                   total_reward, reward, done, epoch_num, alive_frames,
                   total_rewards, initial_state, pm_i, act, frame, batch, env,
                   disk, iter_reward>>

(* the target network synchronised after a finite loss only *)
target_train_unless_nan ==
    /\ pc = "target_train"
    /\ IF isfinite(loss)
       THEN /\ deep_q' = deep_q_target_train(deep_q)
            /\ Log(<<"deep_q.target_train">>)
       ELSE /\ UNCHANGED deep_q
            /\ NoLog
    /\ pc' = "record_loss"
    /\ UNCHANGED <<error, result, iterations, save_path, training_param,
                   replay_buffer, process_buffer, tf_writer, losses,
                   observation_num, epsilon, predict_epsilon, alive_frame,
                   total_reward, reward, done, epoch_num, alive_frames,
                   total_rewards, initial_state, pm_i, act, frame, batch, loss,
                   env, disk, iter_reward>>

(* line 144 *)
target_train ==
    /\ pc = "target_train"
    /\ deep_q' = deep_q_target_train(deep_q)
    /\ Log(<<"deep_q.target_train">>)
    /\ pc' = "record_loss"
    /\ UNCHANGED <<error, result, iterations, save_path, training_param,
                   replay_buffer, process_buffer, tf_writer, losses,
                   observation_num, epsilon, predict_epsilon, alive_frame,
                   total_reward, reward, done, epoch_num, alive_frames,
                   total_rewards, initial_state, pm_i, act, frame, batch, loss,
                   env, disk, iter_reward>>

(* lines 145-149: the loss is recorded; a non-finite loss leaves the loop *)
record_loss ==
    /\ pc = "record_loss"
    /\ losses' = [losses EXCEPT ![observation_num + 1] = loss]
    /\ pc' = after_loss(loss)
    /\ UNCHANGED <<error, result, iterations, save_path, training_param,
                   replay_buffer, process_buffer, deep_q, tf_writer,
                   observation_num, epsilon, predict_epsilon, alive_frame,
                   total_reward, reward, done, epoch_num, alive_frames,
                   total_rewards, initial_state, pm_i, act, frame, batch, loss,
                   env, disk, calls, after_nan, ncalls, iter_reward>>

(* lines 152-154 and save, lines 60-62 *)
save_network ==
    /\ pc = "save"
    /\ IF saving_due(observation_num, iterations)
       THEN /\ disk' = save(disk, save_path, deep_q, observation_num)
            /\ Log(IF save_path # None THEN <<"save", "deep_q.save_network">>
                                       ELSE <<"save">>)
       ELSE /\ UNCHANGED disk
            /\ NoLog
    /\ pc' = "metrics"
    /\ UNCHANGED <<error, result, iterations, save_path, training_param,
                   replay_buffer, process_buffer, deep_q, tf_writer, losses,
                   observation_num, epsilon, predict_epsilon, alive_frame,
                   total_reward, reward, done, epoch_num, alive_frames,
                   total_rewards, initial_state, pm_i, act, frame, batch, loss,
                   env, iter_reward>>

(* lines 157-162: the figures of the episode, the summaries, the counter;  *)
(* alive_frames[epoch_num] raises IndexError past the end of the array     *)
metrics ==
    /\ pc = "metrics"
    /\ IF alive_frame # 0 /\ ~index_ok(epoch_num, Len(alive_frames))
       THEN /\ pc' = "raised"
            /\ error' = "IndexError"
            /\ UNCHANGED <<alive_frames, total_rewards, disk, observation_num>>
       ELSE LET af == IF alive_frame # 0
                      THEN [alive_frames EXCEPT ![epoch_num + 1] = alive_frame]
                      ELSE alive_frames
                tr == IF alive_frame # 0
                      THEN [total_rewards EXCEPT ![epoch_num + 1] = total_reward]
                      ELSE total_rewards
            IN  /\ alive_frames' = af
                /\ total_rewards' = tr
                /\ disk' = save_tensorboard(disk, tf_writer, observation_num,
                                            epoch_num, tr, af)
                /\ observation_num' = observation_num + 1
                /\ pc' = "loop"
                /\ UNCHANGED error
    /\ UNCHANGED <<result, iterations, save_path, training_param, replay_buffer,
                   process_buffer, deep_q, tf_writer, losses, epsilon,
                   predict_epsilon, alive_frame, total_reward, reward, done,
                   epoch_num, initial_state, pm_i, act, frame, batch, loss, env,
                   calls, after_nan, ncalls, iter_reward>>

Next ==
    \/ my_act
    \/ load
    \/ train_begin
    \/ loop_head
    \/ need_reset
    \/ decay_epsilon
    \/ convert_initial
    \/ next_move
    \/ step_frame
    \/ store_new_state
    \/ sample_batch
    \/ skip_training
    \/ network_train
    \/ target_train
    \/ record_loss
    \/ save_network
    \/ metrics

Spec == Init /\ [][Next]_vars

----------------------------------------------------------------------------
(* Properties of train. *)

Range(f) == {f[k] : k \in DOMAIN f}
Started == pc # "idle"
Ended == pc \in {"returned", "raised"}
Positions(cs, c) == {k \in DOMAIN cs : cs[k] = c}

\* C1: epsilon starts from INITIAL_EPSILON, never increases from one step
\* of train to the next and is never strictly below FINAL_EPSILON.
C1_EpsilonBetweenInitialAndFinal ==
    [][pc' # "idle" =>
        /\ (pc = "idle" => epsilon' = training_param'.INITIAL_EPSILON)
        /\ (pc # "idle" => ~float_gt(epsilon', epsilon))
        /\ ~float_gt(training_param'.FINAL_EPSILON, epsilon')]_vars

\* C2: once deep_q.train has returned a non-finite loss there is no further
\* env.reset, action selection, env.step, replay-buffer append or training
\* step, the iteration counter stays, and train goes on to return.
C2_NonFiniteLossEndsLoop ==
    [][loss = "nan" =>
        /\ \A c \in {"env.reset", "predict_movement", "env.step",
                     "replay_buffer.add", "replay_buffer.sample",
                     "deep_q.train"} : ncalls'[c] = ncalls[c]
        /\ observation_num' = observation_num
        /\ pc' \in {"record_loss", "returned"}
        /\ (pc = "record_loss" => pc' = "returned")]_vars

C2_Witness ==
    /\ pc = "returned"
    /\ loss = "nan"
    /\ observation_num < iterations - 1

\* C3: env.reset is called at the start of an iteration, before the action
\* is selected and before env.step, exactly when the iteration is the first
\* or the env.step before it reported done; env.step is never called on an
\* episode that has reported its end.
C3_ResetIffFirstOrDone ==
    /\ (pc \in {"decay", "convert", "next_move"} \/ (pc = "frames" /\ frame = 0))
          => (("env.reset" \in Range(calls))
                  <=> (observation_num = 0 \/ env.last_done))
    /\ Positions(calls, "env.reset") \subseteq {1}
    /\ ~env.step_on_over

C3_Witness ==
    /\ pc = "frames"
    /\ frame = 1
    /\ observation_num > 0
    /\ calls[1] = "env.reset"
    /\ env.episode = 2

\* C4: the replay buffer never holds more than BUFFER_SIZE transitions (it
\* holds the latest ones added), and a minibatch drawn once size() >
\* MIN_OBSERVATION has at most MINIBATCH_SIZE items and no more items than
\* the buffer stores.
C4_BufferAndBatchBounded ==
    Started =>
        /\ rb_size(replay_buffer) <= training_param.BUFFER_SIZE
        /\ rb_size(replay_buffer) =
               Min(ncalls["replay_buffer.add"], training_param.BUFFER_SIZE)
        /\ pc = "deep_q_train" =>
               /\ Cardinality(batch) <= rb_size(replay_buffer)
               /\ Cardinality(batch) <= training_param.MINIBATCH_SIZE
               /\ batch \subseteq DOMAIN replay_buffer.buffer

C4_Witness ==
    /\ pc = "deep_q_train"
    /\ ncalls["replay_buffer.add"] > training_param.BUFFER_SIZE
    /\ training_param.MINIBATCH_SIZE > rb_size(replay_buffer)
    /\ Cardinality(batch) = rb_size(replay_buffer)

\* C5: the transition appended in an iteration is (state before the action,
\* chosen action index, reward of that iteration's env.step calls, done flag
\* of the step, state after the step).
C5_TransitionHoldsStepReward ==
    pc = "train_check" =>
        LET t == replay_buffer.buffer[Len(replay_buffer.buffer)]
        IN  /\ t.s = reshape_flat(initial_state)
            /\ t.a = pm_i
            /\ t.d = env.last_done
            /\ t.s2 = convert_obs(observation_of(env))
            /\ t.r = iter_reward

\* the calls of an iteration that follow its replay-buffer append
AfterAdd(cs) ==
    LET p == Positions(cs, "replay_buffer.add")
    IN  IF p = {} THEN <<>>
        ELSE SubSeq(cs, (CHOOSE k \in p : \A j \in p : j <= k) + 1, Len(cs))

TrainingBlockDone == pc = "save" \/ (pc = "returned" /\ loss = "nan")

\* C6: after the append of an iteration, a buffer size strictly greater
\* than MIN_OBSERVATION gives exactly one minibatch, one deep_q.train and
\* then one deep_q.target_train, any other size gives none of them; a
\* target synchronization always has a training step right before it.
C6_OneTrainingStepThenTargetSync ==
    /\ TrainingBlockDone =>
          /\ Cardinality(Positions(calls, "replay_buffer.add")) = 1
          /\ AfterAdd(calls) =
                 IF Len(replay_buffer.buffer) > training_param.MIN_OBSERVATION
                 THEN <<"replay_buffer.sample", "deep_q.train",
                        "deep_q.target_train">>
                 ELSE <<>>
    /\ \A k \in Positions(calls, "deep_q.target_train") :
          k > 1 /\ calls[k - 1] = "deep_q.train"
    /\ ncalls["deep_q.target_train"] <= ncalls["deep_q.train"]
    /\ ncalls["deep_q.train"] <= ncalls["deep_q.target_train"] + 1

C6_Witness ==
    /\ pc = "save"
    /\ observation_num >= 1
    /\ training_param.MIN_OBSERVATION >= 1
    /\ calls[Len(calls)] = "deep_q.target_train"

\* C7: with NUM_FRAMES == 1, an EPSILON_DECAY that is not 0 and no
\* non-finite loss, train ends after exactly `iterations` iterations (none
\* for iterations <= 0), each with one env.step and one append, the counter
\* going up by one per iteration.
C7_ExactlyIterationsIterations ==
    (/\ Started
     /\ training_param.NUM_FRAMES = 1
     /\ division_defined(training_param.EPSILON_DECAY)
     /\ loss # "nan") =>
        /\ pc \in {"loop", "returned", "raised"} =>
              /\ ncalls["env.step"] = observation_num
              /\ ncalls["replay_buffer.add"] = observation_num
        /\ Ended => observation_num = Max(iterations, 0)

\* the iterations that went past the check of the loss
PastLossCheck ==
    {n \in 0..(iterations - 1) :
        \/ n < observation_num
        \/ (n = observation_num /\ (pc = "metrics" \/ error = "IndexError"))}

\* C8: the weights are saved in exactly the iterations n, not left by the
\* abort, with n % 1000 == 0 or n == iterations - 1, after the training
\* step of the iteration; a run through all iterations ends with the final
\* weights saved; with save_path None there is no save_network call.
C8_SavedEveryThousandAndAtEnd ==
    Started =>
        /\ ncalls["save"] = Cardinality({n \in PastLossCheck :
                                n % 1000 = 0 \/ n = iterations - 1})
        /\ pc = "metrics" =>
              (("save" \in Range(calls)) <=>
                  (observation_num % 1000 = 0 \/ observation_num = iterations - 1))
        /\ \A k \in Positions(calls, "save") :
              \A j \in Positions(calls, "deep_q.train") \cup
                       Positions(calls, "replay_buffer.add") : j < k
        /\ IF save_path = None
           THEN ncalls["deep_q.save_network"] = 0 /\ disk.checkpoints = <<>>
           ELSE /\ ncalls["deep_q.save_network"] = ncalls["save"]
                /\ Len(disk.checkpoints) = ncalls["save"]
                /\ (pc = "returned" /\ loss # "nan" /\ iterations >= 1) =>
                       LET last == disk.checkpoints[Len(disk.checkpoints)]
                       IN  /\ last.step = iterations - 1
                           /\ last.weights = deep_q.weights
                           /\ last.path = <<save_path, agent_name>>

C8_Witness ==
    /\ pc = "returned"
    /\ loss = Finite
    /\ iterations >= 3
    /\ Len(disk.checkpoints) = 2
    /\ disk.checkpoints[2].weights = iterations

\* C9 as stated: every reset of the environment reshuffles the chronics.
C9_EveryResetShuffles ==
    /\ ncalls["shuffle"] = ncalls["env.reset"]
    /\ ("env.reset" \in Range(calls)) => ("shuffle" \in Range(calls))

\* C9, amended: a reset increments epoch_num and reshuffles the chronics
\* exactly when the new epoch_num is a multiple of the number of chronics.
C9_ShuffleEveryFullPass ==
    Started =>
        /\ epoch_num = ncalls["env.reset"]
        /\ env.episode = epoch_num
        /\ env.nb_shuffle = epoch_num \div env.nb_chronics
        /\ ncalls["shuffle"] = env.nb_shuffle
        /\ pc = "decay" =>
              (("shuffle" \in Range(calls)) <=>
                  /\ "env.reset" \in Range(calls)
                  /\ epoch_num % env.nb_chronics = 0)

C9_Witness ==
    /\ pc = "decay"
    /\ env.nb_chronics = 2
    /\ epoch_num = 2
    /\ calls = <<"env.reset", "shuffle">>
    /\ ncalls["env.reset"] = 2
    /\ ncalls["shuffle"] = 1

\* C10 as stated: after the deep_q.train that returned the non-finite loss,
\* train performs no operation on the network, no deep_q.target_train.
C10_NoNetworkCallAfterNonFiniteLoss ==
    loss = "nan" =>
        /\ after_nan = <<>>
        /\ ~deep_q.target_diverged

\* C10, amended: after the deep_q.train that returned the non-finite loss,
\* train synchronizes the target network once, records the loss and leaves
\* the loop; it makes no other call.
C10_OneTargetSyncThenExit ==
    loss = "nan" =>
        \/ pc = "target_train" /\ after_nan = <<>> /\ ~deep_q.target_diverged
        \/ /\ pc \in {"record_loss", "returned"}
           /\ after_nan = <<"deep_q.target_train">>
           /\ deep_q.target_diverged
           /\ deep_q.target = deep_q.weights
           /\ pc = "returned" => losses[observation_num + 1] = "nan"

C10_Witness ==
    /\ pc = "returned"
    /\ loss = "nan"
    /\ deep_q.target_diverged
    /\ after_nan = <<"deep_q.target_train">>

\* C11: the reward recorded for an episode, total_rewards[epoch_num], is
\* the sum of the rewards env.step returned during that episode only.
C11_EpisodeRewardOfThatEpisodeOnly ==
    (pc = "loop" /\ observation_num > 0 /\ alive_frame # 0) =>
        total_rewards[epoch_num + 1] = env.ep_reward

\* C12 as stated: once an episode has ended, alive_frames[epoch_num] is the
\* number of env.step calls of the episode, the last one included, and is
\* at least 1.
C12_SurvivalCountsEveryStep ==
    (env.over /\ index_ok(epoch_num, Len(alive_frames))) =>
        /\ alive_frames[epoch_num + 1] = env.t
        /\ alive_frames[epoch_num + 1] >= 1

\* C12, amended: alive_frames[epoch_num] counts the env.step calls of the
\* episode that did not report its end: all of them while the episode
\* runs, one less than the steps once it has ended, 0 for an episode that
\* ends at its first step.
C12_SurvivalCountsStepsBeforeTheEnd ==
    /\ (env.over /\ index_ok(epoch_num, Len(alive_frames))) =>
          alive_frames[epoch_num + 1] = env.t - 1
    /\ (pc = "loop" /\ observation_num > 0 /\ ~env.over) =>
          alive_frames[epoch_num + 1] = env.t

C12_Witness ==
    /\ pc = "loop"
    /\ env.over
    /\ env.episode = 2
    /\ env.t = 2
    /\ alive_frames[3] = 1
    /\ alive_frames[2] = 0

\* C13 as stated: called with iterations >= 1, train raises no error of
\* its own, whatever the training parameters.
C13_TrainNeverRaises ==
    (Started /\ iterations >= 1) => error = None

\* C13, amended: called with iterations >= 1, train raises
\* ZeroDivisionError exactly when EPSILON_DECAY is 0 and INITIAL_EPSILON is
\* above FINAL_EPSILON, whatever NUM_FRAMES is; otherwise it raises
\* RuntimeError exactly when NUM_FRAMES is not 1.  Both are raised in the
\* first iteration, after the env.reset and before any action is selected
\* or env.step is called.  Its only other error is the IndexError of an
\* episode counter past the per-episode arrays.
C13_ErrorsOfTrain ==
    (Started /\ iterations >= 1) =>
        LET zero_division ==
                /\ training_param.EPSILON_DECAY = 0
                /\ float_gt(training_param.INITIAL_EPSILON,
                            training_param.FINAL_EPSILON)
            one_frame == training_param.NUM_FRAMES = 1
        IN  /\ error \in {None, "ZeroDivisionError", "RuntimeError",
                          "IndexError"}
            /\ zero_division =>
                  /\ pc \in {"loop", "need_reset", "decay", "raised"}
                  /\ pc = "raised" => error = "ZeroDivisionError"
            /\ (~zero_division /\ ~one_frame) =>
                  /\ pc \in {"loop", "need_reset", "decay", "convert", "raised"}
                  /\ pc = "raised" => error = "RuntimeError"
            /\ (zero_division \/ ~one_frame) =>
                  /\ observation_num = 0
                  /\ ncalls["predict_movement"] = 0
                  /\ ncalls["env.step"] = 0
                  /\ pc = "raised" => ncalls["env.reset"] = 1
            /\ error = "ZeroDivisionError" => zero_division
            /\ error = "RuntimeError" => ~zero_division /\ ~one_frame
            /\ error = "IndexError" =>
                  /\ ~zero_division /\ one_frame
                  /\ alive_frame # 0
                  /\ ~index_ok(epoch_num, Len(alive_frames))

C13_Witness ==
    /\ pc = "raised"
    /\ error = "ZeroDivisionError"
    /\ iterations >= 2
    /\ training_param.NUM_FRAMES = 2
    /\ training_param.EPSILON_DECAY = 0
    /\ ncalls["env.reset"] = 1

\* C14: with EPSILON_DECAY a positive integer and INITIAL_EPSILON above
\* FINAL_EPSILON, the epsilon the action of iteration n is selected with,
\* decayed in the same iteration, lies strictly between the two before
\* iteration EPSILON_DECAY - 1 and is exactly FINAL_EPSILON from that
\* iteration on.
C14_LinearDecayReachesFinal ==
    (/\ pc = "frames"
     /\ training_param.EPSILON_DECAY % DecayUnit = 0
     /\ training_param.EPSILON_DECAY >= DecayUnit
     /\ float_gt(training_param.INITIAL_EPSILON, training_param.FINAL_EPSILON)) =>
        LET steps == training_param.EPSILON_DECAY \div DecayUnit
        IN  /\ predict_epsilon = epsilon
            /\ observation_num < steps - 1 =>
                   /\ float_gt(predict_epsilon, training_param.FINAL_EPSILON)
                   /\ float_gt(training_param.INITIAL_EPSILON, predict_epsilon)
            /\ observation_num >= steps - 1 =>
                   predict_epsilon = training_param.FINAL_EPSILON

\* C15: when the process buffer is converted into the initial state it
\* holds exactly one observation, the last one the environment returned:
\* that of env.reset if the iteration reset, that of the previous env.step
\* otherwise.  The initial state after a step that did not end the episode
\* is the next-state of the transition stored last, and every stored
\* transition leads from one observation to the next one of the same
\* episode.
C15_InitialStateIsLatestObservation ==
    /\ pc = "convert" =>
          /\ process_buffer = <<convert_obs(observation_of(env))>>
          /\ ("env.reset" \in Range(calls)) <=> (env.t = 0)
          /\ ("env.reset" \notin Range(calls)) => ~env.last_done
    /\ (pc = "next_move" /\ observation_num > 0 /\ ~env.last_done) =>
          reshape_flat(initial_state) =
              replay_buffer.buffer[Len(replay_buffer.buffer)].s2
    /\ \A k \in DOMAIN replay_buffer.buffer :
          LET tr == replay_buffer.buffer[k]
          IN  /\ Len(tr.s) = 3 /\ Len(tr.s2) = 3
              /\ tr.s2[1] = tr.s[1] + 1
              /\ tr.s2[2] = tr.s[2]
              /\ tr.s2[3] = tr.s[3] + 1

C15_Witness ==
    /\ pc = "next_move"
    /\ observation_num = 2
    /\ env.episode = 2
    /\ ~env.last_done
    /\ Len(replay_buffer.buffer) = 2
    /\ replay_buffer.buffer[1].d

\* C16: every write to alive_frames[epoch_num] and total_rewards[epoch_num]
\* uses an index inside the arrays, 0 <= epoch_num < iterations.
C16_EpisodeIndexInsideArrays ==
    (pc = "metrics" /\ alive_frame # 0) =>
        /\ 0 <= epoch_num
        /\ epoch_num < iterations
        /\ epoch_num < Len(alive_frames)
        /\ epoch_num < Len(total_rewards)

\* C17: once the loss of iteration n is non-finite nothing is written to
\* the disk any more and the iteration counter stays at n; the checkpoints
\* on the disk are those of earlier iterations and none holds the weights
\* of the diverged training step.
C17_NoCheckpointOfDivergedWeights ==
    /\ [](loss = "nan" =>
            /\ observation_num < iterations
            /\ \A k \in DOMAIN disk.checkpoints :
                  /\ disk.checkpoints[k].step < observation_num
                  /\ ~disk.checkpoints[k].diverged
            /\ "save" \notin Range(after_nan)
            /\ "deep_q.save_network" \notin Range(after_nan))
    /\ [][loss = "nan" =>
            /\ disk' = disk
            /\ observation_num' = observation_num]_vars

C17_Witness ==
    /\ pc = "returned"
    /\ loss = "nan"
    /\ iterations = 2
    /\ observation_num = iterations - 1
    /\ Len(disk.checkpoints) = 1
    /\ disk.checkpoints[1].step = 0
    /\ deep_q.diverged

====
